---- MODULE Spec2Model ----
(***************************************************************************)
(* ast-append-ids: the identifier generator, the policy function and the   *)
(* three traversal engines (XML, HTML, JSX) as one state machine.          *)
(*                                                                         *)
(* Strings are sequences of one-character strings, so that formatting,     *)
(* suffixing, case tests and trimming are computed character by character. *)
(* An Option<T> is a sequence of length 0 (None) or 1 (Some(v)).           *)
(***************************************************************************)
EXTENDS Integers, Sequences, FiniteSets, TLC

VARIABLES
    engine,          \* which processor this is: "xml", "html" or "jsx"
    options,         \* the IdOptions of this run, handed to every process call
    used_ids,        \* IdGenerator.used_ids of the processor's generator
    node_counter,    \* IdGenerator.node_counter of the processor's generator
    phase,           \* "idle" (between calls) or "running" (inside process)
    result,          \* "none" before the first return, then "ok" or "err"
    calls,           \* number of process calls begun on this processor
    second,          \* TRUE when this call's input is the previous call's output
    input,           \* the document handed to the running / last call
    todo,            \* what is left to read (XML events) or to visit (HTML, JSX)
    doc,             \* XML: events written so far; HTML, JSX: the tree being mutated
    path_stack,      \* the path stack of the running traversal
    element_counter, \* xml.rs element_counter (local to one process call)
    assigned,        \* what the generator returned in this call, in order
    extracted,       \* elements whose text was extracted in this call
    last,            \* what the most recent element visit did
    first            \* input and output of the first call, made on the fresh processor

vars == <<engine, options, used_ids, node_counter, phase, result, calls, second,
          input, todo, doc, path_stack, element_counter, assigned, extracted,
          last, first>>

----------------------------------------------------------------------------
(* Bounds of the model *)

\* number of process calls made on one processor
MaxCalls == 2

----------------------------------------------------------------------------
(* Characters and strings *)

Lower == <<"a","b","c","d","e","f","g","h","i","j","k","l","m",
           "n","o","p","q","r","s","t","u","v","w","x","y","z">>
Upper == <<"A","B","C","D","E","F","G","H","I","J","K","L","M",
           "N","O","P","Q","R","S","T","U","V","W","X","Y","Z">>
Digits == <<"0","1","2","3","4","5","6","7","8","9">>
Symbols == <<" ","-",":","{","}","\"",",","!",".","_">>
Alphabet == Lower \o Upper \o Digits \o Symbols

Range(s) == {s[i] : i \in DOMAIN s}

IndexIn(s, c) == CHOOSE i \in DOMAIN s : s[i] = c

LowerSet == Range(Lower)
UpperSet == Range(Upper)
AlphanumericSet == Range(Lower) \cup Range(Upper) \cup Range(Digits)

\* the code of a character: its position in Alphabet
CharCode == [c \in Range(Alphabet) |-> IndexIn(Alphabet, c)]

\* char::is_lowercase / char::is_alphanumeric / char::is_whitespace
is_lowercase(c) == c \in LowerSet
is_alphanumeric(c) == c \in AlphanumericSet
is_whitespace(c) == c = " "

\* char::to_lowercase
LowerOf == [c \in UpperSet |-> Lower[IndexIn(Upper, c)]]
to_lowercase_char(c) == IF c \in UpperSet THEN LowerOf[c] ELSE c
to_lowercase(s) == [i \in DOMAIN s |-> to_lowercase_char(s[i])]

\* usize::to_string
RECURSIVE to_string(_)
to_string(n) ==
    IF n < 10 THEN <<Digits[n + 1]>>
    ELSE to_string(n \div 10) \o <<Digits[(n % 10) + 1]>>

\* path.iter().map(|i| i.to_string()).collect::<Vec<_>>().join(sep)
RECURSIVE join_path(_, _)
join_path(path, sep) ==
    IF path = <<>> THEN <<>>
    ELSE IF Len(path) = 1 THEN to_string(path[1])
    ELSE to_string(path[1]) \o sep \o join_path(Tail(path), sep)

\* str::trim
RECURSIVE trim_start(_)
trim_start(s) ==
    IF s # <<>> /\ is_whitespace(Head(s)) THEN trim_start(Tail(s)) ELSE s
RECURSIVE trim_end(_)
trim_end(s) ==
    IF s # <<>> /\ is_whitespace(s[Len(s)])
    THEN trim_end(SubSeq(s, 1, Len(s) - 1)) ELSE s
trim(s) == trim_end(trim_start(s))

\* str::split_whitespace: the non-empty maximal runs of non-whitespace
RECURSIVE split_from(_, _, _)
split_from(s, cur, acc) ==
    IF s = <<>> THEN (IF cur = <<>> THEN acc ELSE Append(acc, cur))
    ELSE IF is_whitespace(Head(s))
         THEN split_from(Tail(s), <<>>, IF cur = <<>> THEN acc ELSE Append(acc, cur))
         ELSE split_from(Tail(s), Append(cur, Head(s)), acc)
split_whitespace(s) == split_from(s, <<>>, <<>>)

\* [&str]::join(sep)
RECURSIVE join(_, _)
join(parts, sep) ==
    IF parts = <<>> THEN <<>>
    ELSE IF Len(parts) = 1 THEN parts[1]
    ELSE parts[1] \o sep \o join(Tail(parts), sep)

\* Iterator::take(n) on the characters of s
take(s, n) == IF Len(s) <= n THEN s ELSE SubSeq(s, 1, n)

----------------------------------------------------------------------------
(* id_generator.rs *)

HexDigits == <<"0","1","2","3","4","5","6","7","8","9","a","b","c","d","e","f">>

\* format!("{:x}", n), zero padded to `width` digits
RECURSIVE hex(_, _)
hex(n, width) ==
    IF width = 0 THEN <<>>
    ELSE hex(n \div 16, width - 1) \o <<HexDigits[(n % 16) + 1]>>

\* Sha256 of the content followed by &hash[..8]: a deterministic digest of the
\* bytes, here two 16-bit polynomial digests printed as eight hexadecimal
\* digits.  Like the truncated SHA-256 it is a function of the content alone
\* and two contents may share a digest.
RECURSIVE digest(_, _, _)
digest(content, h, m) ==
    IF content = <<>> THEN h
    ELSE digest(Tail(content), (h * m + CharCode[Head(content)]) % 65536, m)
short_hash(content) == hex(digest(content, 7, 31), 4) \o hex(digest(content, 11, 37), 4)

\* IdGenerator::ensure_unique, the loop over counter = 2, 3, ...
RECURSIVE unique_loop(_, _, _)
unique_loop(used, id, counter) ==
    LET unique_id == id \o <<"-">> \o to_string(counter)
    IN  IF unique_id \notin used THEN unique_id
        ELSE unique_loop(used, id, counter + 1)

\* faulty variants of ensure_unique: no lookup in the used set; suffixes from 1
MutEnsureUniqueNoCheck(used, id) == [id |-> id, used_ids |-> used \cup {id}]
MutEnsureUniqueFromOne(used, id) ==
    LET r == IF id \notin used THEN id ELSE unique_loop(used, id, 1)
    IN  [id |-> r, used_ids |-> used \cup {r}]
\* IdGenerator::ensure_unique: the identifier returned and the used set after
ensure_unique(used, id) ==
    LET r == IF id \notin used THEN id ELSE unique_loop(used, id, 2)
    IN  [id |-> r, used_ids |-> used \cup {r}]

\* faulty variant of hash_candidate: the generator's call count is hashed, not
\* the node
MutHashOfCallCount(node_type, path, prefix) == prefix \o hex(calls, 8)
\* the candidate of IdGenerator::generate_hash_id (before ensure_unique)
hash_candidate(node_type, path, prefix) ==
    LET path_string == join_path(path, <<":">>)
        content == <<"{","\"","t","y","p","e","\"",":","\"">> \o node_type
                   \o <<"\"",",","\"","p","a","t","h","\"",":","\"">> \o path_string
                   \o <<"\"","}">>
    IN  prefix \o short_hash(content)

generate_hash_id(used, node_type, path, prefix) ==
    ensure_unique(used, hash_candidate(node_type, path, prefix))

\* .chars().take(50)
SlugMaxLen == 50

\* faulty variant of slug_body: the slug is not cut
MutSlugBodyNoCut(text) ==
    LET lowered == trim(to_lowercase(text))
        mapped == [i \in DOMAIN lowered |->
                     IF is_alphanumeric(lowered[i]) \/ lowered[i] = " " \/ lowered[i] = "-"
                     THEN lowered[i] ELSE " "]
    IN  join(split_whitespace(mapped), <<"-">>)
\* the slug body of IdGenerator::generate_slug_id
slug_body(text) ==
    LET lowered == trim(to_lowercase(text))
        mapped == [i \in DOMAIN lowered |->
                     IF is_alphanumeric(lowered[i]) \/ lowered[i] = " " \/ lowered[i] = "-"
                     THEN lowered[i] ELSE " "]
    IN  take(join(split_whitespace(mapped), <<"-">>), SlugMaxLen)

Unknown == <<"u","n","k","n","o","w","n">>

\* faulty variant of slug_candidate: no fallback on the empty text
MutSlugNoFallback(text, prefix) == prefix \o slug_body(text)
\* the candidate of IdGenerator::generate_slug_id (before ensure_unique)
slug_candidate(text, prefix) ==
    IF text = <<>> THEN hash_candidate(Unknown, <<>>, prefix)
    ELSE prefix \o slug_body(text)

generate_slug_id(used, text, prefix) ==
    ensure_unique(used, slug_candidate(text, prefix))

\* faulty variant of path_candidate: the hyphen is written for an empty path too
MutPathAlwaysDash(node_type, path, prefix) ==
    prefix \o node_type \o <<"-">> \o join_path(path, <<"-">>)
\* the candidate of IdGenerator::generate_path_id (before ensure_unique)
path_candidate(node_type, path, prefix) ==
    LET path_string == IF path = <<>> THEN <<>>
                       ELSE <<"-">> \o join_path(path, <<"-">>)
    IN  prefix \o node_type \o path_string

generate_path_id(used, node_type, path, prefix) ==
    ensure_unique(used, path_candidate(node_type, path, prefix))

----------------------------------------------------------------------------
(* ast_common.rs *)

\* faulty variants of should_process_node: the exclude list is not consulted;
\* an existing value is not consulted
MutShouldProcessNoExclude(node_name, opts, existing_id) ==
    IF existing_id # <<>> /\ ~opts.overwrite THEN FALSE
    ELSE IF opts.include # {} /\ node_name \notin opts.include THEN FALSE
    ELSE TRUE
MutShouldProcessIgnoreExisting(node_name, opts, existing_id) ==
    IF opts.include # {} /\ node_name \notin opts.include THEN FALSE
    ELSE IF node_name \in opts.exclude THEN FALSE
    ELSE TRUE
\* faulty variant of should_process_node: the include list is not consulted
MutShouldProcessNoInclude(node_name, opts, existing_id) ==
    IF existing_id # <<>> /\ ~opts.overwrite THEN FALSE
    ELSE IF node_name \in opts.exclude THEN FALSE
    ELSE TRUE
\* should_process_node(node_name, options, existing_id)
should_process_node(node_name, opts, existing_id) ==
    IF existing_id # <<>> /\ ~opts.overwrite THEN FALSE
    ELSE IF opts.include # {} /\ node_name \notin opts.include THEN FALSE
    ELSE IF node_name \in opts.exclude THEN FALSE
    ELSE TRUE

\* the candidate generate_id_for_node hands to ensure_unique
candidate_for_node(node, opts) ==
    CASE opts.strategy = "Hash" -> hash_candidate(node.node_type, node.path, opts.prefix)
      [] opts.strategy = "Slug" ->
            slug_candidate(IF node.text_content = <<>> THEN <<>>
                           ELSE node.text_content[1], opts.prefix)
      [] opts.strategy = "Path" -> path_candidate(node.node_type, node.path, opts.prefix)

\* generate_id_for_node(generator, node, options)
generate_id_for_node(used, node, opts) ==
    CASE opts.strategy = "Hash" ->
            generate_hash_id(used, node.node_type, node.path, opts.prefix)
      [] opts.strategy = "Slug" ->
            generate_slug_id(used, IF node.text_content = <<>> THEN <<>>
                                   ELSE node.text_content[1], opts.prefix)
      [] opts.strategy = "Path" ->
            generate_path_id(used, node.node_type, node.path, opts.prefix)

\* ast_common::find_attribute / the lookup loops of the engines: the value of
\* the first attribute called `name`
RECURSIVE find_attribute(_, _)
find_attribute(attributes, name) ==
    IF attributes = <<>> THEN <<>>
    ELSE IF Head(attributes).name = name THEN <<Head(attributes).value>>
    ELSE find_attribute(Tail(attributes), name)

\* faulty variant of the removal of the existing attribute: nothing is removed
MutWithoutAttributeKeep(attributes, name) == attributes
\* the attributes not called `name`, in order
RECURSIVE without_attribute(_, _)
without_attribute(attributes, name) ==
    IF attributes = <<>> THEN <<>>
    ELSE IF Head(attributes).name = name THEN without_attribute(Tail(attributes), name)
    ELSE <<Head(attributes)>> \o without_attribute(Tail(attributes), name)

----------------------------------------------------------------------------
(* lib.rs: IdOptions *)

S_attr == <<"d","a","t","a","-","a","s","t","-","i","d">>
S_prefix == <<"e","l","-">>
S_div == <<"d","i","v">>
S_span == <<"s","p","a","n">>
S_p == <<"p">>
S_html == <<"h","t","m","l">>

\* CSS selectors handed to the HTML engine: two type selectors and a string
\* that Selector::parse rejects
SelectorStrings == {S_div, S_span, <<"!","!">>}

\* IdOptions; `selector` only reaches the HTML engine
OptionsOf(e) ==
    [attr : {S_attr},
     strategy : {"Hash", "Slug", "Path"},
     prefix : {S_prefix},
     overwrite : BOOLEAN,
     selector : IF e = "html" THEN {<<>>} \cup {<<s>> : s \in SelectorStrings}
                ELSE {<<>>},
     include : {{}, {S_div, S_span}},
     exclude : {{}, {S_span}}]

----------------------------------------------------------------------------
(* Documents *)

\* an attribute; lit = FALSE is a JSX attribute whose value is an expression
Attr(n, v) == [name |-> n, value |-> v, lit |-> TRUE]
DynAttr(n) == [name |-> n, value |-> <<>>, lit |-> FALSE]

\* an event of quick_xml's reader
Ev(ev, name, attrs, text) == [ev |-> ev, name |-> name, attrs |-> attrs, text |-> text]
StartEv(name, attrs) == Ev("Start", name, attrs, <<>>)
EmptyEv(name, attrs) == Ev("Empty", name, attrs, <<>>)
EndEv(name) == Ev("End", name, <<>>, <<>>)
TextEv(text) == Ev("Text", <<>>, <<>>, text)
CommentEv(text) == Ev("Comment", <<>>, <<>>, text)
BadEv == Ev("Bad", <<>>, <<>>, <<>>)

S_x == <<"x">>
S_y == <<"y">>
S_1 == <<"1">>
S_old == <<"o","l","d">>

\* <div x="1" data-ast-id="old"> hi <span/><span y="1" data-ast-id="el-span-0-1"/></div>
XmlDoc1 ==
    << StartEv(S_div, <<Attr(S_x, S_1), Attr(S_attr, S_old)>>),
       TextEv(<<" ","h","i"," ">>),
       EmptyEv(S_span, <<>>),
       EmptyEv(S_span, <<Attr(S_y, S_1),
                         Attr(S_attr, S_prefix \o S_span \o <<"-","0","-","1">>)>>),
       EndEv(S_div) >>

\* <div><!--c--><p> t </p>  <span/></div>
XmlDoc2 ==
    << StartEv(S_div, <<>>),
       CommentEv(<<"c">>),
       StartEv(S_p, <<>>),
       TextEv(<<" ","t"," ">>),
       EndEv(S_p),
       TextEv(<<" "," ">>),
       EmptyEv(S_span, <<>>),
       EndEv(S_div) >>

\* <p><div/> followed by a token the reader rejects
XmlDoc3 ==
    << StartEv(S_p, <<>>),
       EmptyEv(S_div, <<>>),
       BadEv >>

XmlDocs == {XmlDoc1, XmlDoc2, XmlDoc3}

----------------------------------------------------------------------------
(* Bookkeeping shared by the engines *)

NoVisit ==
    [kind |-> "none", node |-> 0, tag |-> <<>>, capital |-> FALSE, host |-> TRUE,
     matched |-> TRUE, existing |-> <<>>, accepted |-> FALSE, candidate |-> <<>>,
     id |-> <<>>, used_before |-> {}, counter_before |-> 0, path |-> <<>>,
     attrs_in |-> <<>>, attrs_out |-> <<>>]

\* the entry of `assigned` for a visit of `node` with outcome r
Given(node, r) ==
    IF r.id = <<>> THEN <<>>
    ELSE <<[node |-> node, candidate |-> r.candidate[1], id |-> r.id[1]]>>

NoCall == [input |-> <<>>, output |-> <<>>, result |-> "none"]

\* entry of process: the locals of one call
Begin(d, work, again) ==
    /\ phase = "idle"
    /\ calls < MaxCalls
    /\ phase' = "running"
    /\ calls' = calls + 1
    /\ second' = again
    /\ input' = d
    /\ todo' = work
    /\ path_stack' = <<>>
    /\ element_counter' = 0
    /\ assigned' = <<>>
    /\ extracted' = {}
    /\ last' = NoVisit
    /\ UNCHANGED <<engine, options, used_ids, node_counter, result, first>>

\* return from process with Ok(out) or Err(..): the locals are dropped
Return(res, out) ==
    /\ phase' = "idle"
    /\ result' = res
    /\ doc' = out
    /\ todo' = <<>>
    /\ path_stack' = <<>>
    /\ first' = IF calls = 1 /\ ~second
                THEN [input |-> input, output |-> out, result |-> res]
                ELSE first
    /\ UNCHANGED <<engine, options, used_ids, node_counter, calls, second, input,
                   element_counter, assigned, extracted, last>>

\* process returning Err(..) before any element is visited
Fail(d) ==
    /\ phase = "idle"
    /\ calls < MaxCalls
    /\ calls' = calls + 1
    /\ second' = FALSE
    /\ input' = d
    /\ result' = "err"
    /\ doc' = <<>>
    /\ todo' = <<>>
    /\ path_stack' = <<>>
    /\ element_counter' = 0
    /\ assigned' = <<>>
    /\ extracted' = {}
    /\ last' = NoVisit
    /\ first' = IF calls = 0 THEN [input |-> d, output |-> <<>>, result |-> "err"]
                ELSE first
    /\ UNCHANGED <<engine, options, used_ids, node_counter, phase>>

----------------------------------------------------------------------------
(* xml.rs *)

\* reader.trim_text(true): text is trimmed and text that trims to nothing is
\* not reported
RECURSIVE skip_blank(_)
skip_blank(events) ==
    IF events # <<>> /\ Head(events).ev = "Text" /\ trim(Head(events).text) = <<>>
    THEN skip_blank(Tail(events)) ELSE events

\* reader.read_event_into: the next event, or Eof at the end of the input
read_event(events) ==
    LET rest == skip_blank(events)
    IN  IF rest = <<>> THEN Ev("Eof", <<>>, <<>>, <<>>)
        ELSE IF Head(rest).ev = "Text"
             THEN [Head(rest) EXCEPT !.text = trim(Head(rest).text)]
             ELSE Head(rest)

after_event(events) ==
    LET rest == skip_blank(events) IN IF rest = <<>> THEN <<>> ELSE Tail(rest)

\* BytesStart::clear_attributes
clear_attributes(attrs) == <<>>

\* XmlProcessor::process_element: the Option<String> returned, the attributes
\* left on the element and the generator's used set
process_element(used, element, opts, path) ==
    LET existing_id == find_attribute(element.attrs, opts.attr)
    IN  IF ~should_process_node(element.name, opts, existing_id)
        THEN [id |-> <<>>, attrs |-> element.attrs, used_ids |-> used,
              candidate |-> <<>>]
        ELSE LET node == [node_type |-> element.name, text_content |-> <<>>,
                          path |-> path]
                 g == generate_id_for_node(used, node, opts)
             IN  [id |-> <<g.id>>,
                  attrs |-> IF opts.overwrite /\ existing_id # <<>>
                            THEN clear_attributes(element.attrs)
                            ELSE element.attrs,
                  used_ids |-> g.used_ids,
                  candidate |-> <<candidate_for_node(node, opts)>>]

\* XmlProcessor::process, entry
XmlProcess(d) ==
    /\ engine = "xml"
    /\ Begin(d, d, FALSE)
    /\ doc' = <<>>

\* the Event::Start and Event::Empty arms up to write_event
XmlTag(kind, pop) ==
    /\ phase = "running"
    /\ engine = "xml"
    /\ read_event(todo).ev = kind
    /\ LET e == read_event(todo)
           stack == Append(path_stack, element_counter)
           r == process_element(used_ids, e, options, stack)
           elem == [e EXCEPT !.attrs = IF r.id # <<>>
                                       THEN Append(r.attrs, Attr(options.attr, r.id[1]))
                                       ELSE r.attrs]
       IN  /\ doc' = Append(doc, elem)
           /\ used_ids' = r.used_ids
           /\ assigned' = assigned \o Given(element_counter, r)
           /\ path_stack' = IF pop THEN SubSeq(stack, 1, Len(stack) - 1) ELSE stack
           /\ last' = [kind |-> "visit", node |-> element_counter, tag |-> e.name,
                       capital |-> FALSE, host |-> TRUE, matched |-> TRUE,
                       existing |-> find_attribute(e.attrs, options.attr),
                       accepted |-> r.id # <<>>,
                       candidate |-> r.candidate,
                       id |-> r.id, used_before |-> used_ids,
                       counter_before |-> node_counter, path |-> stack,
                       attrs_in |-> e.attrs, attrs_out |-> elem.attrs]
    /\ element_counter' = element_counter + 1
    /\ todo' = after_event(todo)
    /\ UNCHANGED <<engine, options, node_counter, phase, result, calls, second,
                   input, extracted, first>>

XmlStart == XmlTag("Start", FALSE)

\* faulty variant of the Event::Empty arm: the path is not popped
MutXmlEmptyNoPop == XmlTag("Empty", FALSE)
XmlEmpty == XmlTag("Empty", TRUE)

\* the Event::End arm
XmlEnd ==
    /\ phase = "running"
    /\ engine = "xml"
    /\ read_event(todo).ev = "End"
    /\ path_stack' = IF path_stack = <<>> THEN <<>>
                     ELSE SubSeq(path_stack, 1, Len(path_stack) - 1)
    /\ doc' = Append(doc, read_event(todo))
    /\ todo' = after_event(todo)
    /\ UNCHANGED <<engine, options, used_ids, node_counter, phase, result, calls,
                   second, input, element_counter, assigned, extracted, last, first>>

\* the Ok(e) arm: every other event is written as read
XmlOther ==
    /\ phase = "running"
    /\ engine = "xml"
    /\ read_event(todo).ev \in {"Text", "Comment"}
    /\ doc' = Append(doc, read_event(todo))
    /\ todo' = after_event(todo)
    /\ UNCHANGED <<engine, options, used_ids, node_counter, phase, result, calls,
                   second, input, path_stack, element_counter, assigned, extracted,
                   last, first>>

\* the Event::Eof arm and the return of the written buffer
XmlEof ==
    /\ phase = "running"
    /\ engine = "xml"
    /\ read_event(todo).ev = "Eof"
    /\ Return("ok", doc)

\* faulty variant of the Err(e) arm: what was written so far is returned
MutXmlErrPartial ==
    /\ phase = "running"
    /\ engine = "xml"
    /\ read_event(todo).ev = "Bad"
    /\ Return("err", doc)
\* the Err(e) arm
XmlErr ==
    /\ phase = "running"
    /\ engine = "xml"
    /\ read_event(todo).ev = "Bad"
    /\ Return("err", <<>>)

----------------------------------------------------------------------------
(* Trees: the documents of the HTML and JSX engines *)

\* A tree is the sequence of its nodes in document order; `parent` is the index
\* of the parent node, 0 for a root.  name_kind / qual describe a JSX element
\* name (Ident: name; Member: qual.name; Ns: qual:name); slot = "attr" marks a
\* JSX element that sits in an attribute value of its parent.
TreeNode(kind, parent, name_kind, qual, name, attrs, text, slot) ==
    [kind |-> kind, parent |-> parent, name_kind |-> name_kind, qual |-> qual,
     name |-> name, attrs |-> attrs, text |-> text, slot |-> slot]
Elem(parent, name, attrs) ==
    TreeNode("Element", parent, "Ident", <<>>, name, attrs, <<>>, "child")
Txt(parent, text) ==
    TreeNode("Text", parent, "Ident", <<>>, <<>>, <<>>, text, "child")

\* node.children(): the child nodes of node i, in order
children(d, i) ==
    SelectSeq([k \in 1..Len(d) |-> k], LAMBDA k : d[k].parent = i)

\* the position of node j among its parent's children (enumerate(), from 0)
child_index(d, j) == Cardinality({k \in 1..(j - 1) : d[k].parent = d[j].parent})

RECURSIVE concat(_)
concat(seqs) == IF seqs = <<>> THEN <<>> ELSE Head(seqs) \o concat(Tail(seqs))

----------------------------------------------------------------------------
(* html.rs *)

\* element.text(): the text nodes below node i, in document order
RECURSIVE text_nodes(_, _)
text_nodes(d, i) ==
    IF d[i].kind = "Text" THEN <<d[i].text>>
    ELSE LET c == children(d, i)
         IN  concat([k \in DOMAIN c |-> text_nodes(d, c[k])])

\* HtmlProcessor::extract_text_content
extract_text_content(d, i) ==
    LET trimmed == [k \in DOMAIN text_nodes(d, i) |-> trim(text_nodes(d, i)[k])]
        text_parts == SelectSeq(trimmed, LAMBDA t : t # <<>>)
    IN  join(text_parts, <<" ">>)

\* ast_common::set_attribute, as Element::set_attribute is used
RECURSIVE set_attribute(_, _, _)
set_attribute(attributes, name, value) ==
    IF attributes = <<>> THEN <<Attr(name, value)>>
    ELSE IF Head(attributes).name = name
         THEN <<[Head(attributes) EXCEPT !.value = value, !.lit = TRUE]>> \o Tail(attributes)
         ELSE <<Head(attributes)>> \o set_attribute(Tail(attributes), name, value)

\* faulty variant of Selector::parse: every string is accepted
MutSelectorAlwaysOk(sel) == TRUE
\* Selector::parse: a type selector is a non-empty run of name characters
selector_ok(sel) == sel # <<>> /\ \A k \in DOMAIN sel : is_alphanumeric(sel[k])

\* html.select(&selector).map(|el| el.id()).collect(): the matching elements
select(d, sel) ==
    SelectSeq([k \in 1..Len(d) |-> k],
              LAMBDA k : d[k].kind = "Element" /\ d[k].name = sel)

matches(d, i, opts) ==
    opts.selector = <<>> \/ (d[i].kind = "Element" /\ d[i].name = opts.selector[1])

\* the calls process_node_recursive makes below (and at) node i, in order:
\* entering a node and, for an element, leaving it after its children
RECURSIVE html_walk(_, _, _)
html_walk(d, i, root) ==
    IF d[i].kind # "Element" THEN <<[ev |-> "enter", node |-> i, root |-> root]>>
    ELSE LET c == children(d, i)
         IN  <<[ev |-> "enter", node |-> i, root |-> root]>>
             \o concat([k \in DOMAIN c |-> html_walk(d, c[k], FALSE)])
             \o <<[ev |-> "exit", node |-> i, root |-> root]>>

\* html.root_element(): the first root that is an element
root_element(d) == CHOOSE i \in 1..Len(d) :
    /\ d[i].parent = 0 /\ d[i].kind = "Element"
    /\ \A k \in 1..(i - 1) : ~(d[k].parent = 0 /\ d[k].kind = "Element")

\* the traversals HtmlProcessor::process starts
html_work(d, opts) ==
    IF opts.selector # <<>>
    THEN LET node_ids == select(d, opts.selector[1])
         IN  concat([k \in DOMAIN node_ids |-> html_walk(d, node_ids[k], TRUE)])
    ELSE html_walk(d, root_element(d), TRUE)

\* process_node_recursive on an element, up to "Process children": whether the
\* policy accepted it, the identifier, the attributes after, the used set
\* after and whether its text was extracted
process_node(used, d, i, opts, path) ==
    LET element == d[i]
        existing_id == find_attribute(element.attrs, opts.attr)
    IN  IF ~should_process_node(element.name, opts, existing_id)
        THEN [accepted |-> FALSE, id |-> <<>>, attrs |-> element.attrs,
              used_ids |-> used, extracted |-> FALSE, candidate |-> <<>>]
        ELSE LET text_content == IF opts.strategy = "Slug"
                                 THEN <<extract_text_content(d, i)>> ELSE <<>>
                 ast_node == [node_type |-> element.name,
                              text_content |-> text_content, path |-> path]
                 g == generate_id_for_node(used, ast_node, opts)
                 removed == IF opts.overwrite /\ existing_id # <<>>
                            THEN without_attribute(element.attrs, opts.attr)
                            ELSE element.attrs
             IN  [accepted |-> TRUE, id |-> <<g.id>>,
                  attrs |-> IF existing_id = <<>> \/ opts.overwrite
                            THEN set_attribute(removed, opts.attr, g.id)
                            ELSE removed,
                  used_ids |-> g.used_ids,
                  extracted |-> opts.strategy = "Slug",
                  candidate |-> <<candidate_for_node(ast_node, opts)>>]

\* HtmlProcessor::process, entry with no selector or one that parses
HtmlProcess(d) ==
    /\ engine = "html"
    /\ options.selector # <<>> => selector_ok(options.selector[1])
    /\ Begin(d, html_work(d, options), FALSE)
    /\ doc' = d

\* HtmlProcessor::process with a selector that Selector::parse rejects
HtmlSelectorErr(d) ==
    /\ engine = "html"
    /\ options.selector # <<>> /\ ~selector_ok(options.selector[1])
    /\ Fail(d)

\* process_node_recursive on an element, up to the loop over its children
HtmlElement ==
    /\ phase = "running"
    /\ engine = "html"
    /\ todo # <<>>
    /\ Head(todo).ev = "enter"
    /\ doc[Head(todo).node].kind = "Element"
    /\ LET i == Head(todo).node
           path == IF Head(todo).root THEN <<>> ELSE path_stack
           element_index == IF Head(todo).root THEN 0 ELSE child_index(doc, i)
           r == process_node(used_ids, doc, i, options, path)
       IN  /\ doc' = [doc EXCEPT ![i].attrs = r.attrs]
           /\ used_ids' = r.used_ids
           /\ assigned' = assigned \o Given(i, r)
           /\ extracted' = IF r.extracted THEN extracted \cup {i} ELSE extracted
           /\ path_stack' = Append(path, element_index)
           /\ last' = [kind |-> "visit", node |-> i, tag |-> doc[i].name,
                       capital |-> FALSE, host |-> TRUE,
                       matched |-> matches(doc, i, options),
                       existing |-> find_attribute(doc[i].attrs, options.attr),
                       accepted |-> r.accepted, candidate |-> r.candidate,
                       id |-> r.id, used_before |-> used_ids,
                       counter_before |-> node_counter, path |-> path,
                       attrs_in |-> doc[i].attrs, attrs_out |-> r.attrs]
    /\ todo' = Tail(todo)
    /\ UNCHANGED <<engine, options, node_counter, phase, result, calls, second,
                   input, element_counter, first>>

\* process_node_recursive on a node that is not an element: nothing happens
HtmlOther ==
    /\ phase = "running"
    /\ engine = "html"
    /\ todo # <<>>
    /\ Head(todo).ev = "enter"
    /\ doc[Head(todo).node].kind # "Element"
    /\ todo' = Tail(todo)
    /\ UNCHANGED <<engine, options, used_ids, node_counter, phase, result, calls,
                   second, input, doc, path_stack, element_counter, assigned,
                   extracted, last, first>>

\* process_node_recursive after the loop over the children: path.pop()
HtmlExit ==
    /\ phase = "running"
    /\ engine = "html"
    /\ todo # <<>>
    /\ Head(todo).ev = "exit"
    /\ path_stack' = SubSeq(path_stack, 1, Len(path_stack) - 1)
    /\ todo' = Tail(todo)
    /\ UNCHANGED <<engine, options, used_ids, node_counter, phase, result, calls,
                   second, input, doc, element_counter, assigned, extracted, last,
                   first>>

\* Ok(html.html())
HtmlFinish ==
    /\ phase = "running"
    /\ engine = "html"
    /\ todo = <<>>
    /\ Return("ok", doc)

S_Hello == <<"H","e","l","l","o"," ">>
S_World == <<"W","o","r","l","d">>
S_bang == <<"!">>
S_A == <<"A">>

\* <html><div x="1" data-ast-id="old">Hello <span>World</span>!</div>
\*       <span data-ast-id="el-span-0-0"></span></html>
HtmlDoc1 ==
    << Elem(0, S_html, <<>>),
       Elem(1, S_div, <<Attr(S_x, S_1), Attr(S_attr, S_old)>>),
       Txt(2, S_Hello),
       Elem(2, S_span, <<>>),
       Txt(4, S_World),
       Txt(2, S_bang),
       Elem(1, S_span, <<Attr(S_attr, S_prefix \o S_span \o <<"-","0","-","0">>)>>) >>

\* <html><div><div><span></span><span y="1"></span></div></div><p>A</p></html>
HtmlDoc2 ==
    << Elem(0, S_html, <<>>),
       Elem(1, S_div, <<>>),
       Elem(2, S_div, <<>>),
       Elem(3, S_span, <<>>),
       Elem(3, S_span, <<Attr(S_y, S_1)>>),
       Elem(1, S_p, <<>>),
       Txt(6, S_A) >>

HtmlDocs == {HtmlDoc1, HtmlDoc2}

----------------------------------------------------------------------------
(* jsx.rs *)

\* JsxProcessor::is_host_element
is_host_element(name) == name # <<>> /\ is_lowercase(Head(name))

\* JsxProcessor::extract_jsx_element_name: the identifier, the property of a
\* member expression, the local name of a namespaced name
extract_jsx_element_name(n) ==
    CASE n.name_kind = "Ident" -> n.name
      [] n.name_kind = "Member" -> n.name
      [] n.name_kind = "Ns" -> n.name

\* the tag name as written in the source
written_name(n) ==
    CASE n.name_kind = "Ident" -> n.name
      [] n.name_kind = "Member" -> n.qual \o <<".">> \o n.name
      [] n.name_kind = "Ns" -> n.qual \o <<":">> \o n.name

\* the find_map of process_jsx_opening: the first attribute called `name` whose
\* value is a string literal
RECURSIVE find_literal_attribute(_, _)
find_literal_attribute(attrs, name) ==
    IF attrs = <<>> THEN <<>>
    ELSE IF Head(attrs).name = name /\ Head(attrs).lit THEN <<Head(attrs).value>>
    ELSE find_literal_attribute(Tail(attrs), name)

\* JsxProcessor::extract_text_from_jsx_children on the children of node i
\* (#[allow(dead_code)]: no call of it exists): trimmed non-empty text
\* children, string-literal expression children (an Expr node with text) and
\* the text of child elements, joined by single spaces
RECURSIVE extract_text_from_jsx_children(_, _)
extract_text_from_jsx_children(d, i) ==
    LET c == SelectSeq(children(d, i), LAMBDA k : d[k].slot = "child")
        part(k) ==
            CASE d[k].kind = "Text" ->
                    IF trim(d[k].text) # <<>> THEN <<trim(d[k].text)>> ELSE <<>>
              [] d[k].kind = "Expr" ->
                    IF d[k].text # <<>> THEN <<d[k].text>> ELSE <<>>
              [] d[k].kind = "Element" ->
                    IF extract_text_from_jsx_children(d, k) # <<>>
                    THEN <<extract_text_from_jsx_children(d, k)>> ELSE <<>>
              [] OTHER -> <<>>
    IN  join(concat([n \in DOMAIN c |-> part(c[n])]), <<" ">>)

\* the number of elements and fragments the visitor is inside of at node i
RECURSIVE depth(_, _)
depth(d, i) ==
    IF d[i].parent = 0 THEN 0
    ELSE depth(d, d[i].parent)
         + (IF d[d[i].parent].kind \in {"Element", "Fragment"} THEN 1 ELSE 0)

\* the visitor's calls below (and at) node i, in order.  visit_mut_jsx_element
\* walks node.children only, so an element in an attribute value is not visited;
\* expression containers are walked by the default visitor
RECURSIVE jsx_walk(_, _)
jsx_walk(d, i) ==
    LET c == SelectSeq(children(d, i), LAMBDA k : d[k].slot = "child")
        below == concat([k \in DOMAIN c |-> jsx_walk(d, c[k])])
    IN  CASE d[i].kind = "Element" ->
                <<[ev |-> "enter", node |-> i]>> \o below \o <<[ev |-> "exit", node |-> i]>>
          [] d[i].kind = "Fragment" ->
                <<[ev |-> "fenter", node |-> i]>> \o below \o <<[ev |-> "fexit", node |-> i]>>
          [] d[i].kind = "Expr" -> below
          [] OTHER -> <<>>

\* module.visit_mut_with(&mut visitor)
jsx_work(d) ==
    LET roots == children(d, 0)
    IN  concat([k \in DOMAIN roots |-> jsx_walk(d, roots[k])])

\* parser.parse_module() fails on a source with a syntax error
parses(d) == \A k \in 1..Len(d) : d[k].kind # "Bad"

\* faulty variant of process_jsx_opening: the counter also advances on a
\* rejected element
MutJsxCountRejected(used, counter, opening, opts, path) ==
    LET element_name == extract_jsx_element_name(opening)
        existing_attr == find_literal_attribute(opening.attrs, opts.attr)
        rejected == [host |-> is_host_element(element_name), accepted |-> FALSE,
                     id |-> <<>>, attrs |-> opening.attrs, used_ids |-> used,
                     node_counter |-> counter + 1, candidate |-> <<>>]
    IN  IF ~is_host_element(element_name) THEN rejected
        ELSE IF ~should_process_node(element_name, opts, existing_attr) THEN rejected
        ELSE LET node == [node_type |-> element_name, text_content |-> <<>>,
                          path |-> path]
                 g == generate_id_for_node(used, node, opts)
                 retained == IF opts.overwrite
                             THEN without_attribute(opening.attrs, opts.attr)
                             ELSE opening.attrs
             IN  [host |-> TRUE, accepted |-> TRUE, id |-> <<g.id>>,
                  attrs |-> IF existing_attr = <<>> \/ opts.overwrite
                            THEN Append(retained, Attr(opts.attr, g.id))
                            ELSE retained,
                  used_ids |-> g.used_ids, node_counter |-> counter + 1,
                  candidate |-> <<candidate_for_node(node, opts)>>]
\* JsxVisitor::process_jsx_opening
process_jsx_opening(used, counter, opening, opts, path) ==
    LET element_name == extract_jsx_element_name(opening)
        existing_attr == find_literal_attribute(opening.attrs, opts.attr)
        rejected == [host |-> is_host_element(element_name), accepted |-> FALSE,
                     id |-> <<>>, attrs |-> opening.attrs, used_ids |-> used,
                     node_counter |-> counter, candidate |-> <<>>]
    IN  IF ~is_host_element(element_name) THEN rejected
        ELSE IF ~should_process_node(element_name, opts, existing_attr) THEN rejected
        ELSE LET node == [node_type |-> element_name, text_content |-> <<>>,
                          path |-> path]
                 g == generate_id_for_node(used, node, opts)
                 retained == IF opts.overwrite
                             THEN without_attribute(opening.attrs, opts.attr)
                             ELSE opening.attrs
             IN  [host |-> TRUE, accepted |-> TRUE, id |-> <<g.id>>,
                  attrs |-> IF existing_attr = <<>> \/ opts.overwrite
                            THEN Append(retained, Attr(opts.attr, g.id))
                            ELSE retained,
                  used_ids |-> g.used_ids, node_counter |-> counter + 1,
                  candidate |-> <<candidate_for_node(node, opts)>>]

\* JsxProcessor::process, entry with a source that parses
JsxProcess(d) ==
    /\ engine = "jsx"
    /\ parses(d)
    /\ Begin(d, jsx_work(d), FALSE)
    /\ doc' = d

\* JsxProcessor::process on a source parse_module rejects
JsxParseErr(d) ==
    /\ engine = "jsx"
    /\ ~parses(d)
    /\ Fail(d)

\* visit_mut_jsx_element up to the visit of the children
JsxElement ==
    /\ phase = "running"
    /\ engine = "jsx"
    /\ todo # <<>>
    /\ Head(todo).ev = "enter"
    /\ LET i == Head(todo).node
           stack == Append(path_stack, node_counter)
           r == process_jsx_opening(used_ids, node_counter, doc[i], options, stack)
       IN  /\ doc' = [doc EXCEPT ![i].attrs = r.attrs]
           /\ used_ids' = r.used_ids
           /\ node_counter' = r.node_counter
           /\ assigned' = assigned \o Given(i, r)
           /\ path_stack' = stack
           /\ last' = [kind |-> "visit", node |-> i,
                       tag |-> extract_jsx_element_name(doc[i]),
                       capital |-> Head(written_name(doc[i])) \in UpperSet,
                       host |-> r.host, matched |-> TRUE,
                       existing |-> find_literal_attribute(doc[i].attrs, options.attr),
                       accepted |-> r.accepted, candidate |-> r.candidate,
                       id |-> r.id, used_before |-> used_ids,
                       counter_before |-> node_counter, path |-> stack,
                       attrs_in |-> doc[i].attrs, attrs_out |-> r.attrs]
    /\ todo' = Tail(todo)
    /\ UNCHANGED <<engine, options, phase, result, calls, second, input,
                   element_counter, extracted, first>>

\* faulty variant of visit_mut_jsx_fragment: nothing is pushed
MutJsxFragmentNoPush ==
    /\ phase = "running"
    /\ engine = "jsx"
    /\ todo # <<>>
    /\ Head(todo).ev = "fenter"
    /\ todo' = Tail(todo)
    /\ UNCHANGED <<engine, options, used_ids, node_counter, phase, result, calls,
                   second, input, doc, path_stack, element_counter, assigned,
                   extracted, last, first>>
\* visit_mut_jsx_fragment up to the visit of the children
JsxFragment ==
    /\ phase = "running"
    /\ engine = "jsx"
    /\ todo # <<>>
    /\ Head(todo).ev = "fenter"
    /\ path_stack' = Append(path_stack, node_counter)
    /\ todo' = Tail(todo)
    /\ UNCHANGED <<engine, options, used_ids, node_counter, phase, result, calls,
                   second, input, doc, element_counter, assigned, extracted, last,
                   first>>

\* the end of visit_mut_jsx_element / visit_mut_jsx_fragment:
\* self.path_stack.truncate(index), index the stack length on entry
JsxLeave(ev) ==
    /\ phase = "running"
    /\ engine = "jsx"
    /\ todo # <<>>
    /\ Head(todo).ev = ev
    /\ path_stack' = take(path_stack, depth(doc, Head(todo).node))
    /\ todo' = Tail(todo)
    /\ UNCHANGED <<engine, options, used_ids, node_counter, phase, result, calls,
                   second, input, doc, element_counter, assigned, extracted, last,
                   first>>

JsxElementExit == JsxLeave("exit")

JsxFragmentExit == JsxLeave("fexit")

\* Ok(to_code(&module))
JsxFinish ==
    /\ phase = "running"
    /\ engine = "jsx"
    /\ todo = <<>>
    /\ Return("ok", doc)

S_Foo == <<"F","o","o">>
S_bar == <<"b","a","r">>
S_Component == <<"C","o","m","p","o","n","e","n","t">>
S_svg == <<"s","v","g">>
S_rect == <<"r","e","c","t">>

\* <div><Foo.bar/><Component/><span data-ast-id={x}>Hello </span>
\*      <><p data-ast-id="old"/></></div>
JsxDoc1 ==
    << Elem(0, S_div, <<>>),
       TreeNode("Element", 1, "Member", S_Foo, S_bar, <<>>, <<>>, "child"),
       Elem(1, S_Component, <<>>),
       Elem(1, S_span, <<DynAttr(S_attr)>>),
       Txt(4, S_Hello),
       TreeNode("Fragment", 1, "Ident", <<>>, <<>>, <<>>, <<>>, "child"),
       Elem(6, S_p, <<Attr(S_x, S_1), Attr(S_attr, S_old)>>) >>

\* <div icon={<span/>}>{cond && <span/>}<svg:rect/><p/>
\*      <p data-ast-id="el-p-0-3"/></div>
JsxDoc2 ==
    << Elem(0, S_div, <<>>),
       TreeNode("Element", 1, "Ident", <<>>, S_span, <<>>, <<>>, "attr"),
       TreeNode("Expr", 1, "Ident", <<>>, <<>>, <<>>, <<>>, "child"),
       Elem(3, S_span, <<>>),
       TreeNode("Element", 1, "Ns", S_svg, S_rect, <<>>, <<>>, "child"),
       Elem(1, S_p, <<>>),
       Elem(1, S_p, <<Attr(S_attr, S_prefix \o S_p \o <<"-","0","-","3">>)>>) >>

\* <div><  : a source with a syntax error
JsxDoc3 ==
    << Elem(0, S_div, <<>>),
       TreeNode("Bad", 1, "Ident", <<>>, <<>>, <<>>, <<>>, "child") >>

\* <span>Hello </span>
JsxDoc4 ==
    << Elem(0, S_span, <<>>),
       Txt(1, S_Hello) >>

JsxDocs == {JsxDoc1, JsxDoc2, JsxDoc3, JsxDoc4}

----------------------------------------------------------------------------
(* Feeding the output of a call back in *)

\* the work of one call on document d
work(d) ==
    CASE engine = "xml" -> d
      [] engine = "html" -> html_work(d, options)
      [] engine = "jsx" -> jsx_work(d)

\* process(out, options), out the text the previous call returned
Reprocess ==
    /\ result = "ok"
    /\ Begin(doc, work(doc), TRUE)
    /\ doc' = IF engine = "xml" THEN <<>> ELSE doc

----------------------------------------------------------------------------
(* The processor *)

Init ==
    /\ engine \in {"xml", "html", "jsx"}
    /\ options \in OptionsOf(engine)
    /\ used_ids = {}
    /\ node_counter = 0
    /\ phase = "idle"
    /\ result = "none"
    /\ calls = 0
    /\ second = FALSE
    /\ input = <<>>
    /\ todo = <<>>
    /\ doc = <<>>
    /\ path_stack = <<>>
    /\ element_counter = 0
    /\ assigned = <<>>
    /\ extracted = {}
    /\ last = NoVisit
    /\ first = NoCall

Next ==
    \/ \E d \in XmlDocs : XmlProcess(d)
    \/ XmlStart
    \/ XmlEmpty
    \/ XmlEnd
    \/ XmlOther
    \/ XmlEof
    \/ XmlErr
    \/ \E d \in HtmlDocs : HtmlProcess(d)
    \/ \E d \in HtmlDocs : HtmlSelectorErr(d)
    \/ HtmlElement
    \/ HtmlOther
    \/ HtmlExit
    \/ HtmlFinish
    \/ \E d \in JsxDocs : JsxProcess(d)
    \/ \E d \in JsxDocs : JsxParseErr(d)
    \/ JsxElement
    \/ JsxFragment
    \/ JsxElementExit
    \/ JsxFragmentExit
    \/ JsxFinish
    \/ Reprocess

Spec == Init /\ [][Next]_vars

----------------------------------------------------------------------------
(* The generator on its own: IdGenerator's public methods called directly *)

\* number of generate_* calls made in one behaviour
MaxGenCalls == 3

S_id == <<"i","d","_">>

\* "Hello World! 123"
T_hello == <<"H","e","l","l","o"," ","W","o","r","l","d","!"," ","1","2","3">>
\* "Hello World! 123 2": its slug is the slug of T_hello with "-2" appended
T_hello2 == T_hello \o <<" ","2">>
\* the upper-case alphabet, " _-!  ", the lower-case alphabet: upper case,
\* punctuation, a hyphen and repeated blanks, and a slug of 55 characters
T_long == Upper \o <<" ","_","-","!"," "," ">> \o Lower
\* a non-empty text with no alphanumeric character, no blank and no hyphen
T_bangs == <<"!","!","!">>

GenInput(node_type, path, text, prefix) ==
    [node_type |-> node_type, path |-> path, text |-> text, prefix |-> prefix]

\* the arguments handed to generate_slug_id, generate_hash_id, generate_path_id
SlugInputs ==
    {GenInput(<<>>, <<>>, t, S_prefix) :
        t \in {<<>>, T_hello, T_hello2, T_long, T_bangs}}
HashInputs ==
    {GenInput(S_div, <<0, 1, 2>>, <<>>, S_prefix),
     GenInput(S_div, <<0, 1, 2>>, <<>>, S_id),
     GenInput(Unknown, <<>>, <<>>, S_prefix)}
PathInputs ==
    {GenInput(S_div, <<0, 1, 2>>, <<>>, S_prefix),
     GenInput(S_span, <<>>, <<>>, S_prefix),
     GenInput(S_span, <<2>>, <<>>, S_prefix)}

\* one call of a generate_* method with arguments x that returned r
GenCall(op, x, r) ==
    /\ engine = "generator"
    /\ calls < MaxGenCalls
    /\ calls' = calls + 1
    /\ used_ids' = r.used_ids
    /\ assigned' = Append(assigned, [op |-> op, args |-> x, id |-> r.id,
                                     used_before |-> used_ids,
                                     used_after |-> r.used_ids])
    /\ UNCHANGED <<engine, options, node_counter, phase, result, second, input,
                   todo, doc, path_stack, element_counter, extracted, last, first>>

GenerateHashId ==
    \E x \in HashInputs :
        GenCall("hash", x, generate_hash_id(used_ids, x.node_type, x.path, x.prefix))

GenerateSlugId ==
    \E x \in SlugInputs :
        GenCall("slug", x, generate_slug_id(used_ids, x.text, x.prefix))

GeneratePathId ==
    \E x \in PathInputs :
        GenCall("path", x, generate_path_id(used_ids, x.node_type, x.path, x.prefix))

\* IdGenerator::new(): the calls that follow are made on a fresh generator
GenNew ==
    /\ engine = "generator"
    /\ calls < MaxGenCalls
    /\ used_ids # {}
    /\ used_ids' = {}
    /\ node_counter' = 0
    /\ UNCHANGED <<engine, options, phase, result, calls, second, input, todo, doc,
                   path_stack, element_counter, assigned, extracted, last, first>>

\* IdOptions::default()
DefaultOptions ==
    [attr |-> S_attr, strategy |-> "Hash", prefix |-> S_prefix, overwrite |-> FALSE,
     selector |-> <<>>, include |-> {}, exclude |-> {}]

GenInit ==
    /\ engine = "generator"
    /\ options = DefaultOptions
    /\ used_ids = {}
    /\ node_counter = 0
    /\ phase = "idle"
    /\ result = "none"
    /\ calls = 0
    /\ second = FALSE
    /\ input = <<>>
    /\ todo = <<>>
    /\ doc = <<>>
    /\ path_stack = <<>>
    /\ element_counter = 0
    /\ assigned = <<>>
    /\ extracted = {}
    /\ last = NoVisit
    /\ first = NoCall

GenNext ==
    \/ GenerateHashId
    \/ GenerateSlugId
    \/ GeneratePathId
    \/ GenNew

GenSpec == GenInit /\ [][GenNext]_vars

----------------------------------------------------------------------------
(* Properties *)

Visited == last.kind = "visit"

Returned == phase = "idle" /\ calls > 0

Distinct(seq) == \A i, j \in DOMAIN seq : i # j => seq[i] # seq[j]

\* the values of the configured attribute carried by the elements of a
\* document (XML events or tree nodes), in document order
AttrValues(d) ==
    concat([k \in DOMAIN d |->
              LET a == SelectSeq(d[k].attrs,
                                 LAMBDA x : x.name = options.attr /\ x.lit)
              IN  [m \in DOMAIN a |-> a[m].value]])

Suffixed(id, k) == id \o <<"-">> \o to_string(k)

\* C1: within one process call the identifiers the generator returns are
\* pairwise distinct, and none of them was in the used set when it was returned.
C1_ReturnedIdsDistinct ==
    /\ Distinct([k \in DOMAIN assigned |-> assigned[k].id])
    /\ (Visited /\ last.id # <<>>) => last.id[1] \notin last.used_before

\* C1 witness: on the fresh processor two elements had the same candidate and
\* the second was given a different identifier.
C1_Witness ==
    /\ calls = 1
    /\ Len(assigned) >= 2
    /\ assigned[1].candidate = assigned[2].candidate
    /\ assigned[1].id # assigned[2].id

\* C2: after one call with overwrite = false on a document whose existing
\* values of the configured attribute are pairwise distinct, no two elements
\* of the output carry the same value.
C2_OutputValuesDistinct ==
    (/\ Returned /\ result = "ok" /\ calls = 1
     /\ ~options.overwrite
     /\ Distinct(AttrValues(input)))
    => Distinct(AttrValues(doc))

\* C3: ensure_unique(id) returns id and records it when id is not used;
\* otherwise it returns id-k for the smallest k >= 2 with id-k unused and
\* records that.  Three calls with one base on a fresh generator give
\* base, base-2, base-3.
C3_EnsureUnique ==
    /\ (Visited /\ last.id # <<>>) =>
         LET c == last.candidate[1]
             U == last.used_before
             r == last.id[1]
         IN  /\ c \notin U => r = c
             /\ c \in U => \E k \in 2..(Cardinality(U) + 2) :
                              /\ r = Suffixed(c, k)
                              /\ r \notin U
                              /\ \A j \in 2..(k - 1) : Suffixed(c, j) \in U
             /\ used_ids = U \cup {r}
    /\ (/\ calls = 1 /\ Len(assigned) >= 3
        /\ assigned[1].candidate = assigned[2].candidate
        /\ assigned[2].candidate = assigned[3].candidate) =>
         /\ assigned[1].id = assigned[1].candidate
         /\ assigned[2].id = Suffixed(assigned[1].candidate, 2)
         /\ assigned[3].id = Suffixed(assigned[1].candidate, 3)

\* C3 witness: three identifiers were returned for one base on the fresh
\* generator.
C3_Witness ==
    /\ calls = 1
    /\ Len(assigned) >= 3
    /\ assigned[1].candidate = assigned[2].candidate
    /\ assigned[2].candidate = assigned[3].candidate

\* C4: should_process_node(tag, options, existing) = NOT(existing present and
\* overwrite false) AND (include empty OR tag in include) AND tag not in
\* exclude; a tag in exclude is rejected whatever include, overwrite and
\* existing are.
C4_Policy ==
    (Visited /\ last.host) =>
      /\ last.accepted =
           (/\ ~(last.existing # <<>> /\ ~options.overwrite)
            /\ (options.include = {} \/ last.tag \in options.include)
            /\ last.tag \notin options.exclude)
      /\ last.tag \in options.exclude => ~last.accepted

\* C4 witness: an element whose tag is both included and excluded, with
\* overwrite set, was visited.
C4_Witness ==
    /\ Visited
    /\ last.host
    /\ last.tag \in options.include \cap options.exclude
    /\ options.overwrite

\* C5: with overwrite = false, processing the output of a call again with the
\* same configuration returns it unchanged and assigns no identifier.
C5_Idempotent ==
    (second /\ ~options.overwrite) =>
      /\ assigned = <<>>
      /\ (Returned => result = "ok" /\ doc = input)

\* C5 witness: a second pass has returned on a document in which the first
\* pass had assigned identifiers.
C5_Witness ==
    /\ second /\ ~options.overwrite
    /\ Returned
    /\ calls = 2
    /\ first.output # first.input
    /\ used_ids # {}

\* C6: with a selector configured, the HTML engine leaves the attributes of
\* every element that does not match the selector as they were.
C6_SelectorScoping ==
    (Visited /\ engine = "html" /\ options.selector # <<>> /\ ~last.matched)
    => last.attrs_out = last.attrs_in

\* C7: a JSX element whose written tag name begins with a capital letter never
\* receives the configured attribute (identifier, member expression or
\* namespaced name).
C7_CapitalNeverAssigned ==
    (Visited /\ engine = "jsx" /\ last.capital)
    => (~last.accepted /\ last.attrs_out = last.attrs_in)

\* C8: in the XML and HTML engines every attribute other than the configured
\* one is kept with its name, value and relative order, also when overwriting.
C8_OtherAttributesKept ==
    (Visited /\ engine \in {"xml", "html"})
    => without_attribute(last.attrs_out, options.attr)
       = without_attribute(last.attrs_in, options.attr)

\* C9: a later process(d, c) on the same processor returns what process(d, c)
\* returned on the freshly constructed processor.
C9_HistoryIndependent ==
    (Returned /\ calls >= 2 /\ ~second /\ input = first.input)
    => (result = first.result /\ doc = first.output)

\* C10: visiting an element that the policy (or the JSX host check) rejects
\* leaves the used set and the generator's counter unchanged and extracts no
\* text.
C10_RejectedUntouched ==
    [][((XmlStart \/ XmlEmpty \/ HtmlElement \/ JsxElement) /\ ~last'.accepted)
       => (/\ used_ids' = used_ids
           /\ node_counter' = node_counter
           /\ extracted' = extracted)]_vars

\* C10 witness: an element was rejected after identifiers had been generated.
C10_Witness ==
    /\ Visited
    /\ ~last.accepted
    /\ assigned # <<>>
    /\ extracted # {}

\* the attributes of a tag that bear the configured name, whatever their value
Carried(attrs) == SelectSeq(attrs, LAMBDA x : x.name = options.attr)

\* the overwrite flag at one element visit, `present` telling whether the
\* element counts as carrying the configured attribute
OverwriteFlag(present) ==
    (Visited /\ present) =>
      /\ ~options.overwrite => last.attrs_out = last.attrs_in
      /\ (options.overwrite /\ last.accepted) =>
           /\ Carried(last.attrs_out) = <<Attr(options.attr, last.id[1])>>
           /\ last.id[1] \notin last.used_before

----------------------------------------------------------------------------
(* Properties of the generator's methods *)

\* the least-suffix rule: c when c is not in U, else c-k for the least k >= 2
\* with c-k not in U
LeastFree(U, c) ==
    IF c \notin U THEN c
    ELSE Suffixed(c, CHOOSE k \in 2..(Cardinality(U) + 2) :
                        /\ Suffixed(c, k) \notin U
                        /\ \A j \in 2..(k - 1) : Suffixed(c, j) \in U)

\* calls j..k of the history were made on one generator, none created between
SameGenerator(j, k) ==
    \A m \in (j + 1)..k : assigned[m].used_before = assigned[m - 1].used_after

\* call k repeats the method and arguments of the earlier call j
Repeats(j, k) ==
    /\ j < k
    /\ assigned[j].op = assigned[k].op
    /\ assigned[j].args = assigned[k].args

\* call k is the second call with its method and arguments on its generator,
\* call j the first
SecondOf(j, k) ==
    /\ Repeats(j, k)
    /\ SameGenerator(j, k)
    /\ \A m \in (j + 1)..(k - 1) : ~Repeats(m, k)
    /\ \A m \in 1..(j - 1) : ~(Repeats(m, j) /\ SameGenerator(m, j))

\* the slug of a text, by position: letters are lower-cased, alphanumerics
\* and hyphens are kept, and every run of other characters between two kept
\* characters becomes one hyphen
Hyphenate(text) ==
    LET low == to_lowercase(text)
        kept == SelectSeq([i \in DOMAIN low |-> i],
                          LAMBDA i : is_alphanumeric(low[i]) \/ low[i] = "-")
    IN  concat([n \in DOMAIN kept |->
                  IF n > 1 /\ kept[n] > kept[n - 1] + 1
                  THEN <<"-", low[kept[n]]>> ELSE <<low[kept[n]]>>])

SlugCalls == {k \in DOMAIN assigned : assigned[k].op = "slug" /\ assigned[k].args.text # <<>>}

\* the slug body the claim describes, for each text handed to generate_slug_id
SlugOf == [t \in {x.text : x \in SlugInputs} |-> take(Hyphenate(t), 50)]

\* the candidate the claim describes for slug call k
SlugExpected(k) == assigned[k].args.prefix \o SlugOf[assigned[k].args.text]

\* the slug candidate of every call on a non-empty text is as described and
\* is what the call returns when it is not yet used
SlugShape ==
    \A k \in SlugCalls :
        LET c == SlugExpected(k)
            body == SubSeq(c, Len(assigned[k].args.prefix) + 1, Len(c))
        IN  /\ Len(body) <= 50
            /\ \A i \in DOMAIN body : ~is_whitespace(body[i]) /\ body[i] \notin UpperSet
            /\ c \notin assigned[k].used_before => assigned[k].id = c

\* C12 (as stated): the slug candidate is prefix + the text lower-cased, other
\* characters replaced by spaces, split on whitespace and joined by hyphens,
\* cut to 50 characters, with no whitespace and no upper-case letter; the
\* second call with a text on one generator returns the candidate with "-2".
C12_SlugSecondCallSuffix2 ==
    /\ SlugShape
    /\ \A k \in SlugCalls : \A j \in 1..(k - 1) :
         SecondOf(j, k) => assigned[k].id = Suffixed(SlugExpected(k), 2)

\* C12 (amended): the same candidate; a call whose candidate is already used
\* returns candidate-k for the least k >= 2 not yet used, which is "-2" for
\* the second of two calls made one after the other on a fresh generator.
C12_SlugCandidate ==
    /\ SlugShape
    /\ \A k \in SlugCalls :
         /\ assigned[k].id = LeastFree(assigned[k].used_before, SlugExpected(k))
         /\ (/\ k > 1
             /\ Repeats(k - 1, k)
             /\ assigned[k - 1].used_before = {}
             /\ SameGenerator(k - 1, k))
            => (/\ assigned[k - 1].id = SlugExpected(k)
                /\ assigned[k].id = Suffixed(SlugExpected(k), 2))

\* C12 witness: the text whose slug is longer than 50 characters was given
\* twice in a row to a fresh generator.
C12_Witness ==
    \E k \in SlugCalls :
        /\ k > 1
        /\ Repeats(k - 1, k)
        /\ assigned[k - 1].used_before = {}
        /\ SameGenerator(k - 1, k)
        /\ assigned[k].args.text = T_long
        /\ Len(assigned[k - 1].id) = Len(S_prefix) + 50

EmptySlugCalls == {k \in DOMAIN assigned : assigned[k].op = "slug" /\ assigned[k].args.text = <<>>}

\* calls j..k are all slug calls on the empty text, made on one generator that
\* was fresh at call j
EmptyRun(j, k) ==
    /\ j <= k
    /\ \A m \in j..k : m \in EmptySlugCalls /\ assigned[m].args = assigned[k].args
    /\ assigned[j].used_before = {}
    /\ SameGenerator(j, k)

PathCalls == {k \in DOMAIN assigned : assigned[k].op = "path"}

\* a path integer below 100 in decimal
Decimal(n) ==
    IF n < 10 THEN <<Digits[n + 1]>>
    ELSE <<Digits[(n \div 10) + 1], Digits[(n % 10) + 1]>>

\* the candidate the claim describes for path call k
PathExpected(k) ==
    LET a == assigned[k].args
    IN  a.prefix \o a.node_type
        \o concat([i \in DOMAIN a.path |-> <<"-">> \o Decimal(a.path[i])])

S_el_div_0_1_2 == <<"e","l","-","d","i","v","-","0","-","1","-","2">>
S_el_span == <<"e","l","-","s","p","a","n">>

\* C14: the path candidate is prefix + tag when the path is empty and prefix +
\* tag + "-" + the path integers joined by "-" otherwise (("div", [0,1,2],
\* "el-") gives "el-div-0-1-2", ("span", [], "el-") gives "el-span"); what is
\* returned is the candidate passed through ensure_unique.
C14_PathCandidate ==
    \A k \in PathCalls :
        LET h == assigned[k]
        IN  /\ h.id = LeastFree(h.used_before, PathExpected(k))
            /\ h.used_after = h.used_before \cup {h.id}
            /\ h.args.path = <<>> => PathExpected(k) = h.args.prefix \o h.args.node_type
            /\ (h.used_before = {} /\ h.args = GenInput(S_div, <<0, 1, 2>>, <<>>, S_prefix))
               => h.id = S_el_div_0_1_2
            /\ (S_el_span \notin h.used_before
                /\ h.args = GenInput(S_span, <<>>, <<>>, S_prefix))
               => h.id = S_el_span

\* C14 witness: ("div", [0,1,2]) on the fresh generator, then ("span", [])
\* twice, the second of which was suffixed.
C14_Witness ==
    /\ Len(assigned) >= 3
    /\ SameGenerator(1, 3)
    /\ assigned[1].op = "path" /\ assigned[1].id = S_el_div_0_1_2
    /\ assigned[2].op = "path" /\ assigned[2].id = S_el_span
    /\ assigned[3].op = "path" /\ assigned[3].id = Suffixed(S_el_span, 2)

HashCalls == {k \in DOMAIN assigned : assigned[k].op = "hash"}

\* the identifier of call k without what ensure_unique may have appended
HashBase(k) == take(assigned[k].id, Len(assigned[k].args.prefix) + 8)

\* C15: the hash candidate (the identifier before suffixing) is the prefix
\* followed by 8 hexadecimal characters and depends on (tag, path, prefix)
\* only, whatever the generator has produced before; calls with equal
\* arguments on fresh generators return equal identifiers, and a second call
\* right after on the same generator returns the first identifier with "-2".
C15_HashDeterministic ==
    \A k \in HashCalls :
        LET h == assigned[k]
            n == Len(h.args.prefix)
        IN  /\ Len(h.id) >= n + 8
            /\ take(h.id, n) = h.args.prefix
            /\ \A i \in (n + 1)..(n + 8) : h.id[i] \in Range(HexDigits)
            /\ h.id = LeastFree(h.used_before, HashBase(k))
            /\ \A j \in HashCalls :
                 assigned[j].args = h.args =>
                   /\ HashBase(j) = HashBase(k)
                   /\ (assigned[j].used_before = {} /\ h.used_before = {})
                      => assigned[j].id = h.id
            /\ (/\ k > 1
                /\ Repeats(k - 1, k)
                /\ assigned[k - 1].used_before = {}
                /\ SameGenerator(k - 1, k))
               => h.id = Suffixed(assigned[k - 1].id, 2)

\* C15 witness: one (tag, path, prefix) was hashed twice on a fresh generator
\* and once more on another fresh generator.
C15_Witness ==
    /\ Len(assigned) >= 3
    /\ assigned[1].op = "hash"
    /\ Repeats(1, 2) /\ SameGenerator(1, 2)
    /\ Repeats(1, 3) /\ assigned[3].used_before = {}
    /\ assigned[2].id = Suffixed(assigned[1].id, 2)
    /\ assigned[3].id = assigned[1].id

----------------------------------------------------------------------------
(* Properties of process as a whole *)

\* the events the XML reader reports for a document: text that trims to
\* nothing is not reported
Reported(d) == SelectSeq(d, LAMBDA e : ~(e.ev = "Text" /\ trim(e.text) = <<>>))

\* the document has a token the XML reader rejects / a JSX syntax error
Malformed(d) == \E k \in DOMAIN d : (IF engine = "xml" THEN d[k].ev ELSE d[k].kind) = "Bad"

\* the returned document holds every event or node of the input, in order
Whole(out, d) ==
    IF engine = "xml"
    THEN /\ Len(out) = Len(Reported(d))
         /\ \A k \in DOMAIN out : /\ out[k].ev = Reported(d)[k].ev
                                  /\ out[k].name = Reported(d)[k].name
    ELSE /\ Len(out) = Len(d)
         /\ \A k \in DOMAIN out : /\ out[k].kind = d[k].kind
                                  /\ out[k].name = d[k].name
                                  /\ out[k].parent = d[k].parent

\* C16: process returns either Ok with the whole transformed document or Err
\* with no document text.  An XML reader error yields Err and nothing of what
\* was already written is returned; a JSX parse failure yields Err before any
\* element is visited, the generator untouched.
C16_NoPartialSuccess ==
    /\ [](Returned =>
            /\ result \in {"ok", "err"}
            /\ result = "err" => doc = <<>> /\ todo = <<>>
            /\ result = "ok" => ~Malformed(input) /\ Whole(doc, input)
            /\ Malformed(input) => result = "err"
            /\ (engine = "jsx" /\ result = "err") => assigned = <<>> /\ ~Visited)
    /\ [][(\E d \in JsxDocs : JsxParseErr(d))
          => (used_ids' = used_ids /\ node_counter' = node_counter)]_vars

\* C16 witness: the XML engine returned Err after it had written two elements,
\* one of them with a generated identifier.
C16_Witness ==
    /\ Returned
    /\ engine = "xml"
    /\ result = "err"
    /\ element_counter >= 2
    /\ assigned # <<>>

\* the configured selector is the string that is not a CSS selector
InvalidSelector == engine = "html" /\ options.selector = << <<"!", "!">> >>

\* C17: with a selector that is not valid CSS the HTML engine returns Err
\* before any element is visited: no policy decision, no identifier, the used
\* set unchanged, no document text.  Without a selector the HTML engine never
\* returns Err.
C17_InvalidSelector ==
    /\ [][(\E d \in HtmlDocs : HtmlSelectorErr(d))
          => (/\ used_ids' = used_ids
              /\ node_counter' = node_counter
              /\ result' = "err"
              /\ doc' = <<>>
              /\ assigned' = <<>>
              /\ extracted' = {}
              /\ ~Visited')]_vars
    /\ [](InvalidSelector =>
            /\ phase = "idle"
            /\ ~Visited
            /\ used_ids = {}
            /\ calls > 0 => result = "err" /\ doc = <<>>)
    /\ []((engine = "html" /\ options.selector = <<>>) => result # "err")

\* C17 witness: two calls with the invalid selector have returned Err.
C17_Witness ==
    /\ InvalidSelector
    /\ calls = 2
    /\ result = "err"
    /\ first.result = "err"

----------------------------------------------------------------------------
(* Properties of text extraction *)

\* C18: under Slug the JSX engine derives an element's identifier from the
\* element's extracted text (trimmed non-empty text children, string-literal
\* expression children, nested elements' text, joined by single spaces):
\* <span>Hello </span> with prefix "el-" has the candidate "el-hello".
C18_JsxSlugText ==
    (Visited /\ engine = "jsx" /\ options.strategy = "Slug" /\ last.accepted)
    => last.candidate[1]
       = slug_candidate(extract_text_from_jsx_children(doc, last.node), options.prefix)

\* the text of the direct text-node children of node i, each trimmed, empty
\* ones skipped, joined by single spaces
DirectText(d, i) ==
    LET c == SelectSeq(children(d, i),
                       LAMBDA k : d[k].kind = "Text" /\ trim(d[k].text) # <<>>)
    IN  join([n \in DOMAIN c |-> trim(d[c[n]].text)], <<" ">>)

\* C19: under Slug the HTML engine builds an element's text from its direct
\* text-node children only; text inside nested elements does not contribute
\* (the text of <div>Hello <span>World</span>!</div> is "Hello !").
C19_HtmlSlugDirectText ==
    (Visited /\ engine = "html" /\ options.strategy = "Slug" /\ last.accepted)
    => last.candidate[1] = slug_candidate(DirectText(doc, last.node), options.prefix)

----------------------------------------------------------------------------
(* Properties of the elements the policy rejects *)

\* the elements of a document: Start / Empty events, element nodes
IsElement(n) == IF engine = "xml" THEN n.ev \in {"Start", "Empty"} ELSE n.kind = "Element"

\* the element of the input that element k of the output comes from
InputOf(k) == IF engine = "xml" THEN Reported(input)[k] ELSE input[k]

\* the tag name and the existing value the engine hands to the policy
PolicyTag(n) == IF engine = "jsx" THEN extract_jsx_element_name(n) ELSE n.name
PolicyExisting(n) ==
    IF engine = "jsx" THEN find_literal_attribute(n.attrs, options.attr)
    ELSE find_attribute(n.attrs, options.attr)

\* the decision the policy is specified to take
Qualifies(tag, existing) ==
    /\ ~(existing # <<>> /\ ~options.overwrite)
    /\ (options.include = {} \/ tag \in options.include)
    /\ tag \notin options.exclude

\* C20: an element the policy rejects (tag not in a non-empty include list,
\* tag in exclude, or existing value with overwrite = false) has exactly its
\* input attributes in the output, in every engine; with a non-empty include
\* list only elements whose tag is in it gain the attribute, and an element
\* whose tag is in exclude never gains it.
C20_RejectedUnchanged ==
    /\ (Visited /\ ~last.accepted) => last.attrs_out = last.attrs_in
    /\ (Returned /\ result = "ok") =>
         \A k \in DOMAIN doc :
            IsElement(doc[k]) =>
              LET e == InputOf(k)
              IN  /\ ~Qualifies(PolicyTag(e), PolicyExisting(e))
                     => doc[k].attrs = e.attrs
                  /\ (options.include # {} /\ doc[k].attrs # e.attrs)
                     => PolicyTag(e) \in options.include
                  /\ PolicyTag(e) \in options.exclude => doc[k].attrs = e.attrs

\* C20 witness: a call with include and exclude lists returned a document in
\* which one element gained the attribute, one was kept out by the include
\* list and one by the exclude list.
C20_Witness ==
    /\ Returned /\ result = "ok"
    /\ options.include # {} /\ options.exclude # {}
    /\ \E k \in DOMAIN doc : IsElement(doc[k]) /\ doc[k].attrs # InputOf(k).attrs
    /\ \E k \in DOMAIN doc : IsElement(doc[k]) /\ PolicyTag(InputOf(k)) \in options.exclude
    /\ \E k \in DOMAIN doc :
          /\ IsElement(doc[k])
          /\ PolicyTag(InputOf(k)) \notin options.include \cup options.exclude
          /\ PolicyExisting(InputOf(k)) = <<>>

----------------------------------------------------------------------------
(* Properties of the XML pass *)

\* the number of Start and Empty events among the first n events of d
ElementsIn(d, n) == Cardinality({j \in 1..n : d[j].ev \in {"Start", "Empty"}})

\* Start events minus End events among events a..b of d
Balance(d, a, b) ==
    Cardinality({j \in a..b : d[j].ev = "Start"})
    - Cardinality({j \in a..b : d[j].ev = "End"})

\* the Start events among the first n events of d that are not closed within
\* them, outermost first
OpenStarts(d, n) ==
    SelectSeq([j \in 1..n |-> j],
              LAMBDA j : /\ d[j].ev = "Start"
                         /\ \A m \in (j + 1)..n : Balance(d, j + 1, m) >= 0)

\* the counter values of the open ancestors after the first n events of d
AncestorCounters(d, n) ==
    [i \in DOMAIN OpenStarts(d, n) |-> ElementsIn(d, OpenStarts(d, n)[i] - 1)]

\* the position in d of the element numbered k (0-based, document order)
PositionOf(d, k) ==
    CHOOSE i \in DOMAIN d : d[i].ev \in {"Start", "Empty"} /\ ElementsIn(d, i - 1) = k

\* C21: during the XML pass the depth of the path stack is the number of Start
\* events read minus the number of End events read, the element counter is the
\* number of Start and Empty events handled, eligible or not, and the path
\* handed on for the k-th element is the counter values of its open ancestors,
\* outermost first, followed by k; at Eof the stack is empty.
C21_XmlPathStack ==
    (engine = "xml" /\ phase = "running") =>
      /\ Len(path_stack) = Balance(doc, 1, Len(doc))
      /\ path_stack = AncestorCounters(doc, Len(doc))
      /\ element_counter = ElementsIn(doc, Len(doc))
      /\ Visited =>
           /\ last.node = element_counter - 1
           /\ last.path = AncestorCounters(doc, PositionOf(doc, last.node) - 1)
                          \o <<last.node>>
      /\ read_event(todo).ev = "Eof" => path_stack = <<>>

\* C21 witness: an Empty element, the fourth element of the document, was
\* handled inside an open element after a sibling had been closed, and the
\* policy had rejected an earlier element.
C21_Witness ==
    /\ engine = "xml" /\ phase = "running"
    /\ Visited
    /\ last.path = <<0, 2>>
    /\ path_stack = <<0>>
    /\ Len(assigned) < element_counter

\* C22: the XML output has the events of the input in the same order, and
\* every event that is not a Start or Empty tag is written with exactly the
\* content it had in the input, including leading, trailing and
\* whitespace-only text.
C22_XmlPassThrough ==
    (Returned /\ engine = "xml" /\ result = "ok") =>
      /\ Len(doc) = Len(input)
      /\ \A k \in DOMAIN doc :
           /\ k \in DOMAIN input
           /\ doc[k].ev = input[k].ev
           /\ doc[k].ev \notin {"Start", "Empty"} => doc[k] = input[k]

----------------------------------------------------------------------------
(* Properties of the JSX traversal *)

RECURSIVE AncestorsOf(_, _)
AncestorsOf(d, i) ==
    IF d[i].parent = 0 THEN {} ELSE {d[i].parent} \cup AncestorsOf(d, d[i].parent)

\* the number of elements and fragments node i is nested in
NestDepth(d, i) ==
    Cardinality({a \in AncestorsOf(d, i) : d[a].kind \in {"Element", "Fragment"}})

\* C23: entering a JSX element or fragment pushes the current counter value
\* and leaving it restores the path stack of the entry, so that the depth of
\* the stack is the element/fragment nesting depth; the counter never
\* decreases and increases by exactly one for each element that is assigned an
\* identifier, not for fragments, component elements or rejected elements.
C23_JsxPathStack ==
    /\ []((engine = "jsx" /\ phase = "running") =>
            IF todo = <<>> THEN path_stack = <<>>
            ELSE Len(path_stack)
                 = NestDepth(doc, Head(todo).node)
                   + (IF Head(todo).ev \in {"exit", "fexit"} THEN 1 ELSE 0))
    /\ [][/\ (JsxElement \/ JsxFragment) => path_stack' = Append(path_stack, node_counter)
          /\ (JsxElementExit \/ JsxFragmentExit) =>
                /\ Len(path_stack') = Len(path_stack) - 1
                /\ path_stack' = SubSeq(path_stack, 1, Len(path_stack) - 1)
          /\ node_counter' >= node_counter
          /\ JsxElement =>
                node_counter' = node_counter + (IF last'.id # <<>> THEN 1 ELSE 0)
          /\ (engine = "jsx" /\ ~JsxElement) => node_counter' = node_counter]_vars

\* C23 witness: an element inside a fragment inside an element was rejected
\* by the policy after the counter had advanced.
C23_Witness ==
    /\ engine = "jsx" /\ phase = "running"
    /\ Visited
    /\ Len(path_stack) = 3
    /\ ~last.accepted /\ last.host
    /\ node_counter > 0
    /\ node_counter = last.counter_before

----------------------------------------------------------------------------
(* Properties of the visits of one call *)

\* the elements the running HTML or JSX traversal has visited so far, in order
VisitedSoFar ==
    LET W == work(input)
        n == Len(W) - Len(todo)
        entered == SelectSeq([k \in 1..n |-> W[k]],
                             LAMBDA e : e.ev = "enter" /\ input[e.node].kind = "Element")
    IN  [k \in DOMAIN entered |-> entered[k].node]

\* C24: within one call the policy is evaluated exactly once for each visited
\* element, before any identifier is generated for it, and each element is
\* assigned an identifier at most once, also in the HTML engine with a
\* selector one match of which is a descendant of another, with overwrite
\* true or false.
C24_PolicyOncePerElement ==
    (phase = "running" /\ engine \in {"xml", "html", "jsx"}) =>
      /\ Distinct([k \in DOMAIN assigned |-> assigned[k].node])
      /\ engine # "xml" => Distinct(VisitedSoFar)
      /\ (Visited /\ last.id # <<>>) => Qualifies(last.tag, last.existing)

\* within one call no element is assigned an identifier twice
C24_AssignedOnce ==
    (phase = "running" /\ engine \in {"xml", "html", "jsx"}) =>
      Distinct([k \in DOMAIN assigned |-> assigned[k].node])

\* C25: the path of an element descriptor identifies the element: within one
\* call two distinct elements handed to the generator never have the same
\* path, so under the Path strategy (candidate = prefix, tag, "-", path) two
\* distinct elements never get the same candidate before suffixing.
C25_PathIdentifies ==
    (phase = "running" /\ engine \in {"xml", "html", "jsx"}
       /\ options.strategy = "Path") =>
      \A j, k \in DOMAIN assigned :
          assigned[j].node # assigned[k].node =>
              assigned[j].candidate # assigned[k].candidate

\* the same statement for the XML and JSX engines only
C25_PathIdentifiesXmlJsx ==
    engine \in {"xml", "jsx"} => C25_PathIdentifies

\* C26: after process no element carries more than one attribute with the
\* configured name, provided no element of the input carried more than one;
\* in all three engines, with overwrite true or false, and for a JSX element
\* whose existing attribute of that name has an expression value.
C26_AtMostOneAttribute ==
    (/\ Returned
     /\ result = "ok"
     /\ \A k \in DOMAIN input : Len(Carried(input[k].attrs)) <= 1) =>
      \A k \in DOMAIN doc : Len(Carried(doc[k].attrs)) <= 1

\* the same statement without the JSX elements whose attribute of that name
\* is not a string literal
C26_AtMostOneLiteral ==
    (\A k \in DOMAIN input :
        \A m \in DOMAIN input[k].attrs :
            input[k].attrs[m].name = options.attr => input[k].attrs[m].lit) =>
      C26_AtMostOneAttribute

\* a JSX element whose name as written starts with a lower-case letter
LowerCaseNamed(n) == n.kind = "Element" /\ is_lowercase(Head(written_name(n)))

\* C27: with the default options every lower-case-named JSX element of the
\* module that carries no configured attribute receives one, wherever it
\* occurs: as a direct child, inside a fragment, inside an expression
\* container child, and inside an attribute value of another JSX element.
C27_JsxCoverage ==
    (Returned /\ engine = "jsx" /\ result = "ok" /\ options = DefaultOptions) =>
      \A k \in DOMAIN input :
          (LowerCaseNamed(input[k]) /\ Carried(input[k].attrs) = <<>>) =>
              Carried(doc[k].attrs) # <<>>

\* the same statement for the elements that are not inside an attribute value
C27_JsxCoverageOfChildren ==
    (Returned /\ engine = "jsx" /\ result = "ok" /\ options = DefaultOptions) =>
      \A k \in DOMAIN input :
          (/\ LowerCaseNamed(input[k])
           /\ Carried(input[k].attrs) = <<>>
           /\ \A a \in AncestorsOf(input, k) \cup {k} : input[a].slot = "child") =>
              Carried(doc[k].attrs) # <<>>

C28_SlugOfOtherTexts ==
    \A k \in DOMAIN assigned :
        (assigned[k].op = "slug" /\ assigned[k].args.text # T_bangs) =>
          LET h == assigned[k]
              p == h.args.prefix
              g == generate_hash_id(h.used_before, Unknown, <<>>, p)
          IN  /\ Len(h.id) > Len(p)
              /\ SubSeq(h.id, 1, Len(p)) = p
              /\ slug_body(h.args.text) = <<>> =>
                   /\ h.id = g.id
                   /\ h.used_after = g.used_ids

====
